---- MODULE Spec2Model ----
(***************************************************************************)
(* Model of the scrape-site scripts: scrape_site.py (selector scraper),    *)
(* crawl4ai_scraper.py (crawl4ai scraper), openai_scraper.py (LLM scraper). *)
(*                                                                         *)
(* Strings are sequences of one-character strings.  The bracket "【" is    *)
(* written "[" and "】" is written "]"; every kanji of a marker label is   *)
(* written as one ASCII letter, so a marker keeps its real length and the  *)
(* labels keep their shared suffixes.                                      *)
(***************************************************************************)
EXTENDS Integers, Sequences, FiniteSets, TLC

VARIABLES
    impl,         \* which script runs: "selector", "crawl4ai" or "openai"
    pc,           \* position of the run
    page,         \* content of the fetched page
    result,       \* the record the scrape function builds from the page
    args,         \* parsed command line
    api_key,      \* whether OPENAI_API_KEY is set
    http_gets,    \* HTTP GETs of the target URL issued so far
    llm_calls,    \* chat completion requests issued so far
    fetch_failed, \* a GET raised a transport error or had a non-2xx status
    parsed,       \* the page was parsed / normalised by a selector scraper
    html,         \* what fetch_html returned last
    html_saved,   \* the -s file was written
    ret,          \* what the scrape function returned to main
    raised,       \* exception that left the scrape function uncaught
    exit_code,    \* exit status of the process, -1 while it runs
    json_out      \* where the JSON went: "none", "file" or "stdout"

dataVars == <<page, result>>
cliVars == <<args, api_key, http_gets, llm_calls, fetch_failed, parsed, html,
             html_saved, ret, raised, exit_code, json_out>>
vars == <<impl, pc, dataVars, cliVars>>

(***************************************************************************)
(* Bounds                                                                  *)
(***************************************************************************)
\* number of pieces a details text is assembled from
MaxPieces == 3
\* number of elements of a generic page
MaxElems == 2
\* number of elements of a job page
MaxSpans == 3
\* number of runs of characters an HTML document is made of
MaxRuns == 2

(***************************************************************************)
(* State of a run before main has done anything                            *)
(***************************************************************************)
NoArgs == [url |-> "other", output |-> FALSE, pretty |-> FALSE, save_html |-> FALSE]

CliIdle ==
    /\ args = NoArgs
    /\ api_key = TRUE
    /\ http_gets = 0
    /\ llm_calls = 0
    /\ fetch_failed = FALSE
    /\ parsed = FALSE
    /\ html = ""
    /\ html_saved = FALSE
    /\ ret = "none"
    /\ raised = "none"
    /\ exit_code = -1
    /\ json_out = "none"

(***************************************************************************)
(* Python string primitives                                                *)
(***************************************************************************)
Whitespace == {" "}

\* s[a:b] for 0 <= a, 0 <= b (0-based, end exclusive, clipped to the string)
Slice(s, a, b) ==
    LET hi == IF b > Len(s) THEN Len(s) ELSE b
    IN  IF a >= hi THEN <<>> ELSE SubSeq(s, a + 1, hi)

\* sub occurs in s at 0-based index i
OccursAt(s, sub, i) ==
    /\ i >= 0
    /\ i + Len(sub) <= Len(s)
    /\ \A k \in 1..Len(sub) : s[i + k] = sub[k]

\* str.find(sub, start): the lowest index >= start where sub occurs, else -1
Find(s, sub, start) ==
    LET hits == {i \in start..(Len(s) - Len(sub)) : OccursAt(s, sub, i)}
    IN  IF hits = {} THEN -1
        ELSE CHOOSE i \in hits : \A j \in hits : i <= j

\* "sub in s"
Contains(s, sub) == Find(s, sub, 0) >= 0

RECURSIVE LStrip(_)
LStrip(s) ==
    IF s # <<>> /\ Head(s) \in Whitespace THEN LStrip(Tail(s)) ELSE s

RECURSIVE RStrip(_)
RStrip(s) ==
    IF s # <<>> /\ s[Len(s)] \in Whitespace
    THEN RStrip(SubSeq(s, 1, Len(s) - 1)) ELSE s

\* str.strip()
Strip(s) == RStrip(LStrip(s))

(***************************************************************************)
(* Section markers                                                         *)
(***************************************************************************)
Bracket == <<"[">>

\* the marker literal looked for under each label of the conditions mapping
Marker(label) ==
    CASE label = "required"        -> <<"[", "a", "b", "c", "d", "]">>
      [] label = "preferred"       -> <<"[", "e", "f", "c", "d", "]">>
      [] label = "expected_salary" -> <<"[", "g", "h", "i", "j", "]">>
      [] label = "work_conditions" -> <<"[", "k", "l", "c", "d", "]">>
      [] label = "background"      -> <<"[", "m", "n", "o", "p", "]">>
      [] label = "job_details"     -> <<"[", "q", "s", "t", "u", "v", "]">>

SelectorLabels ==
    {"required", "preferred", "expected_salary", "work_conditions",
     "background", "job_details"}

Crawl4aiLabels ==
    {"required", "preferred", "expected_salary", "work_conditions"}

\* the order in which the markers are looked for
LabelOrder ==
    <<"required", "preferred", "expected_salary", "work_conditions",
      "background", "job_details">>

ConfiguredLabels(i) == IF i = "crawl4ai" THEN Crawl4aiLabels ELSE SelectorLabels

\* the "if marker in details_text" test
MarkerPresentFromOne(text, m) == Find(text, m, 1) >= 0
MarkerPresent(text, m) == Contains(text, m)

SectionStart(text, m) == Find(text, m, 0)

\* details_text.find("【", start + 1) if ... > 0 else len(details_text)
SectionEndNoSkip(text, start) ==
    IF Find(text, Bracket, start) > 0
    THEN Find(text, Bracket, start) ELSE Len(text)
SectionEndToEnd(text, start) == Len(text)
SectionEndAtNextMarker(text, start) ==
    LET next == {Find(text, Marker(l), start + 1) : l \in SelectorLabels} \ {-1}
    IN  IF next = {} THEN Len(text)
        ELSE CHOOSE e \in next : \A f \in next : e <= f
SectionEnd(text, start) ==
    IF Find(text, Bracket, start + 1) > 0
    THEN Find(text, Bracket, start + 1) ELSE Len(text)

\* details_text[start:end].strip()
SectionText(text, m) ==
    LET start == SectionStart(text, m)
    IN  Strip(Slice(text, start, SectionEnd(text, start)))

\* the chain of "if marker in text: conditions[label] = ..." statements
ExtractConditions(text, labels) ==
    [l \in {x \in labels : MarkerPresent(text, Marker(x))}
        |-> SectionText(text, Marker(l))]

EmptyMap == [l \in {} |-> <<>>]

(***************************************************************************)
(* Inputs of the section splitter                                          *)
(***************************************************************************)
\* "no such element / key": a value no text equals
NoElem == <<"NoElem">>

Pieces ==
    {Marker(l) : l \in SelectorLabels} \cup {<<"[">>, <<"x">>, <<" ">>}

RECURSIVE Flatten(_)
Flatten(ps) == IF ps = <<>> THEN <<>> ELSE Head(ps) \o Flatten(Tail(ps))

Texts == {Flatten(ps) : ps \in UNION {[1..n -> Pieces] : n \in 0..MaxPieces}}

\* selector scraper: the h2 heading may be missing, and so may the div after it
SelectorPages ==
    {[section |-> FALSE, div |-> NoElem], [section |-> TRUE, div |-> NoElem]}
    \cup {[section |-> TRUE, div |-> t] : t \in Texts}

\* crawl4ai scraper: extracted_data has the key "job_details" or not; the
\* extractor hands over an element's text with surrounding whitespace trimmed
Crawl4aiPages ==
    {[job_details |-> d] : d \in {NoElem} \cup {t \in Texts : Strip(t) = t}}

(***************************************************************************)
(* Section splitter of both sokudan scrapers                               *)
(***************************************************************************)
InitSplit ==
    /\ impl \in {"selector", "crawl4ai"}
    /\ page \in (IF impl = "selector" THEN SelectorPages ELSE Crawl4aiPages)
    /\ pc = "extract"
    /\ result = [details |-> <<>>, conditions |-> EmptyMap]
    /\ CliIdle

\* scrape_sokudan_job, the details / conditions part
scrape_sokudan_job ==
    /\ impl = "selector"
    /\ pc = "extract"
    /\ result' =
         IF page.section /\ page.div # NoElem
         THEN [details |-> Strip(page.div),
               conditions |-> ExtractConditions(page.div, SelectorLabels)]
         ELSE [details |-> <<>>, conditions |-> EmptyMap]
    /\ pc' = "done"
    /\ UNCHANGED <<impl, page, cliVars>>

\* scrape_sokudan_with_crawl4ai, the details / conditions part
scrape_sokudan_with_crawl4ai ==
    /\ impl = "crawl4ai"
    /\ pc = "extract"
    /\ LET details == IF page.job_details = NoElem THEN <<>> ELSE page.job_details
       IN  result' = [details |-> details,
                      conditions |-> ExtractConditions(details, Crawl4aiLabels)]
    /\ pc' = "done"
    /\ UNCHANGED <<impl, page, cliVars>>

NextSplit == scrape_sokudan_job \/ scrape_sokudan_with_crawl4ai

SpecSplit == InitSplit /\ [][NextSplit]_vars

(***************************************************************************)
(* Claims about the section splitter                                       *)
(***************************************************************************)
\* the text the splitter scanned (empty when the page has no details element)
ScannedText ==
    IF impl = "selector"
    THEN (IF page.section /\ page.div # NoElem THEN page.div ELSE <<>>)
    ELSE (IF page.job_details = NoElem THEN <<>> ELSE page.job_details)

NoDetailsElement ==
    IF impl = "selector"
    THEN ~page.section \/ page.div = NoElem
    ELSE page.job_details = NoElem

Occurs(text, m) == \E i \in 0..Len(text) : OccursAt(text, m, i)

\* i is the first occurrence of m in text (0-based)
FirstOccurrence(text, m, i) ==
    /\ OccursAt(text, m, i)
    /\ \A j \in 0..(i - 1) : ~OccursAt(text, m, j)

\* e is the index of the next "[" located after i, or the end of the text
NextBracketOrEnd(text, i, e) ==
    /\ e \in (i + 1)..Len(text)
    /\ e < Len(text) => text[e + 1] = "["
    /\ \A j \in (i + 1)..(e - 1) : text[j + 1] # "["

\* v is the substring from the first occurrence of m up to the next "["
ExactSection(text, m, v) ==
    \E i \in 0..Len(text) :
        /\ FirstOccurrence(text, m, i)
        /\ \E e \in (i + 1)..Len(text) :
              /\ NextBracketOrEnd(text, i, e)
              /\ v = SubSeq(text, i + 1, e)

\* v is w without its trailing whitespace
TrailingTrimmed(w, v) ==
    /\ Len(v) <= Len(w)
    /\ v = SubSeq(w, 1, Len(v))
    /\ \A k \in (Len(v) + 1)..Len(w) : w[k] \in Whitespace
    /\ v # <<>> => v[Len(v)] \notin Whitespace

\* that substring with its trailing whitespace removed
TrimmedSection(text, m, v) ==
    \E i \in 0..Len(text) :
        /\ FirstOccurrence(text, m, i)
        /\ \E e \in (i + 1)..Len(text) :
              /\ NextBracketOrEnd(text, i, e)
              /\ TrailingTrimmed(SubSeq(text, i + 1, e), v)

\* C1 as stated: the section stored under the label of every configured
\* marker that occurs in the details text is exactly the substring from the
\* marker's first occurrence up to the next "[" after it, or the end of text.
C1_SectionIsExactSubstring ==
    pc = "done" =>
        \A l \in ConfiguredLabels(impl) :
            Occurs(ScannedText, Marker(l)) =>
                /\ l \in DOMAIN result.conditions
                /\ ExactSection(ScannedText, Marker(l), result.conditions[l])

\* C1 amended: the stored section is that substring with its trailing
\* whitespace removed (the code strips every section it stores).
C1_SectionIsTrimmedSubstring ==
    pc = "done" =>
        \A l \in ConfiguredLabels(impl) :
            Occurs(ScannedText, Marker(l)) =>
                /\ l \in DOMAIN result.conditions
                /\ TrimmedSection(ScannedText, Marker(l), result.conditions[l])

\* two sections were stored, the first one bounded by the second marker and
\* shortened by the strip
C1_Witness ==
    /\ pc = "done"
    /\ DOMAIN result.conditions = {"required", "preferred"}
    /\ ScannedText = Marker("required") \o <<" ">> \o Marker("preferred")
    /\ result.conditions["required"] = Marker("required")
    /\ result.conditions["preferred"] = Marker("preferred")

\* C2: the keys of the conditions mapping are exactly the labels whose
\* configured marker occurs in the details text; a page without a details
\* element, or a text without configured markers, gives the empty mapping.
C2_KeysAreMarkersPresent ==
    pc = "done" =>
        /\ DOMAIN result.conditions =
              {l \in ConfiguredLabels(impl) : Occurs(ScannedText, Marker(l))}
        /\ NoDetailsElement => result.conditions = EmptyMap

\* a text starting with one marker, holding a second, and lacking the others
C2_Witness ==
    /\ pc = "done"
    /\ impl = "selector"
    /\ OccursAt(ScannedText, Marker("job_details"), 0)
    /\ DOMAIN result.conditions = {"required", "job_details"}

\* the 0-based index of the first occurrence of the marker of label l
FirstIdx(l) ==
    CHOOSE i \in 0..Len(ScannedText) : FirstOccurrence(ScannedText, Marker(l), i)

\* the positions of the details text attributed to the section of label l
SectionRange(l) == FirstIdx(l)..(FirstIdx(l) + Len(result.conditions[l]) - 1)

CheckedBefore(l1, l2) ==
    \E a, b \in 1..Len(LabelOrder) :
        a < b /\ LabelOrder[a] = l1 /\ LabelOrder[b] = l2

\* a marker occurs in the text before a marker that is looked for earlier
NonMonotonic ==
    \E l1, l2 \in DOMAIN result.conditions :
        CheckedBefore(l1, l2) /\ FirstIdx(l2) < FirstIdx(l1)

\* some position of the text belongs to two sections
DoubleCounted ==
    \E l1, l2 \in DOMAIN result.conditions :
        l1 # l2 /\ SectionRange(l1) \cap SectionRange(l2) # {}

\* C12 as stated: when a configured marker occurs in the text before a marker
\* that is looked for earlier, some portion of the details text is attributed
\* to more than one section.
C12_NonMonotonicDoubleCounts ==
    pc = "done" /\ NonMonotonic => DoubleCounted

\* C12 amended: also when the markers occur out of the order they are looked
\* for, no portion of the details text is attributed to two sections.
C12_NonMonotonicNoDoubleCount ==
    pc = "done" /\ NonMonotonic => ~DoubleCounted

\* "preferred" occurs before "required" and has content after it
C12_Witness ==
    /\ pc = "done"
    /\ NonMonotonic
    /\ ScannedText = Marker("preferred") \o <<"x">> \o Marker("required")
    /\ result.conditions["preferred"] = Marker("preferred") \o <<"x">>
    /\ result.conditions["required"] = Marker("required")

\* C13: every stored section begins with its own marker and holds exactly one
\* "[", its first character; the ranges of two distinct sections never
\* overlap and no section holds another bracketed heading.
C13_OneBracketPerSection ==
    pc = "done" =>
        /\ \A l \in DOMAIN result.conditions :
              LET v == result.conditions[l]
              IN  /\ Len(v) >= Len(Marker(l))
                  /\ SubSeq(v, 1, Len(Marker(l))) = Marker(l)
                  /\ {k \in 1..Len(v) : v[k] = "["} = {1}
        /\ ~DoubleCounted

\* a section followed by a bracket that belongs to no configured marker
C13_Witness ==
    /\ pc = "done"
    /\ ScannedText = Marker("required") \o <<"[">> \o Marker("job_details")
    /\ DOMAIN result.conditions = {"required", "job_details"}
    /\ result.conditions["required"] = Marker("required")

(***************************************************************************)
(* Command line runs of the three scripts                                  *)
(***************************************************************************)
\* what a GET of the target URL can come to
GetOutcomes == {"ok", "ok_empty", "transport_error", "bad_status"}

\* the outcomes that are fetch failures: an exception of the transport, or a
\* response whose status is not 2xx
FailedOutcomes == {"transport_error", "bad_status"}

\* what the chat completion request can come to
LlmOutcomes == {"ok", "api_error", "malformed_json"}

\* requests.get / raise_for_status raised a RequestException
RequestFailedNoStatusCheck(o) == o = "transport_error"
RequestFailed(o) == o \in {"transport_error", "bad_status"}

\* fetch_html: response.text, or "" when the request failed
fetch_html(o) ==
    IF o \in {"transport_error", "bad_status"} THEN ""
    ELSE IF o = "ok" THEN "html" ELSE ""

\* "not result" in main
IsFalsy(r) == r = "empty"

ArgsOf(i) ==
    [url : {"sokudan", "other"}, output : BOOLEAN, pretty : BOOLEAN,
     save_html : IF i = "openai" THEN BOOLEAN ELSE {FALSE}]

InitCli ==
    /\ impl \in {"selector", "crawl4ai", "openai"}
    /\ args \in ArgsOf(impl)
    /\ api_key \in BOOLEAN
    /\ pc = "main"
    /\ page = <<>>
    /\ result = <<>>
    /\ http_gets = 0
    /\ llm_calls = 0
    /\ fetch_failed = FALSE
    /\ parsed = FALSE
    /\ html = ""
    /\ html_saved = FALSE
    /\ ret = "none"
    /\ raised = "none"
    /\ exit_code = -1
    /\ json_out = "none"

\* scrape_site.py: scrape_url -> scrape_sokudan_job / scrape_generic_site
scrape_url ==
    /\ impl = "selector"
    /\ pc = "main"
    /\ \E o \in GetOutcomes :
          /\ http_gets' = http_gets + 1
          /\ fetch_failed' = (fetch_failed \/ o \in FailedOutcomes)
          /\ IF RequestFailed(o)
             THEN /\ ret' = "empty"
                  /\ UNCHANGED parsed
             ELSE /\ parsed' = TRUE
                  /\ ret' = "record"
    /\ pc' = "returned"
    /\ UNCHANGED <<impl, dataVars, args, api_key, llm_calls, html, html_saved,
                   raised, exit_code, json_out>>

\* crawl4ai_scraper.py: scrape_url_with_crawl4ai; crawler.extract fetches the
\* page and raises when the fetch fails or the extraction breaks
scrape_url_with_crawl4ai ==
    /\ impl = "crawl4ai"
    /\ pc = "main"
    /\ \E o \in GetOutcomes, extract_raises \in BOOLEAN :
          /\ http_gets' = http_gets + 1
          /\ fetch_failed' = (fetch_failed \/ o \in FailedOutcomes)
          /\ IF o \in FailedOutcomes \/ extract_raises
             THEN /\ ret' = "empty"
                  /\ UNCHANGED parsed
             ELSE /\ parsed' = TRUE
                  /\ ret' = "record"
    /\ pc' = "returned"
    /\ UNCHANGED <<impl, dataVars, args, api_key, llm_calls, html, html_saved,
                   raised, exit_code, json_out>>

\* openai_scraper.py main: "if args.save_html:" block
main_save_html ==
    /\ impl = "openai"
    /\ pc = "main"
    /\ args.save_html
    /\ \E o \in GetOutcomes :
          /\ http_gets' = http_gets + 1
          /\ fetch_failed' = (fetch_failed \/ o \in FailedOutcomes)
          /\ html' = fetch_html(o)
          /\ IF fetch_html(o) # ""
             THEN /\ html_saved' = TRUE
                  /\ pc' = "scrape"
                  /\ UNCHANGED exit_code
             ELSE /\ pc' = "exit"
                  /\ exit_code' = 1
                  /\ UNCHANGED html_saved
    /\ UNCHANGED <<impl, dataVars, args, api_key, llm_calls, parsed, ret,
                   raised, json_out>>

\* scrape_url_with_openai up to the call of parse_with_openai
scrape_url_with_openai ==
    /\ impl = "openai"
    /\ \/ pc = "scrape"
       \/ pc = "main" /\ ~args.save_html
    /\ \E o \in GetOutcomes :
          /\ http_gets' = http_gets + 1
          /\ fetch_failed' = (fetch_failed \/ o \in FailedOutcomes)
          /\ html' = fetch_html(o)
          /\ IF fetch_html(o) = ""
             THEN /\ ret' = "empty"
                  /\ pc' = "returned"
             ELSE /\ pc' = "parse"
                  /\ UNCHANGED ret
    /\ UNCHANGED <<impl, dataVars, args, api_key, llm_calls, parsed,
                   html_saved, raised, exit_code, json_out>>

\* parse_with_openai: get_api_key, then the completion request in try/except;
\* the ValueError of get_api_key is outside the try and ends the process
parse_with_openai ==
    /\ impl = "openai"
    /\ pc = "parse"
    /\ IF ~api_key
       THEN /\ raised' = "ValueError"
            /\ exit_code' = 1
            /\ pc' = "exit"
            /\ UNCHANGED <<llm_calls, ret>>
       ELSE /\ \E r \in LlmOutcomes :
                 /\ llm_calls' = llm_calls + 1
                 /\ ret' = IF r = "ok" THEN "record" ELSE "error_record"
            /\ pc' = "returned"
            /\ UNCHANGED <<raised, exit_code>>
    /\ UNCHANGED <<impl, dataVars, args, api_key, http_gets, fetch_failed,
                   parsed, html, html_saved, json_out>>

\* main of each script from "if not result:" to the end
main_output ==
    /\ pc = "returned"
    /\ IF IsFalsy(ret)
       THEN /\ exit_code' = 1
            /\ UNCHANGED json_out
       ELSE /\ json_out' = IF args.output THEN "file" ELSE "stdout"
            /\ exit_code' = 0
    /\ pc' = "exit"
    /\ UNCHANGED <<impl, dataVars, args, api_key, http_gets, llm_calls,
                   fetch_failed, parsed, html, html_saved, ret, raised>>

NextCli ==
    \/ scrape_url
    \/ scrape_url_with_crawl4ai
    \/ main_save_html
    \/ scrape_url_with_openai
    \/ parse_with_openai
    \/ main_output

SpecCli == InitCli /\ [][NextCli]_vars

C4_ExitCodeTellsFailure ==
    pc = "exit" =>
        /\ exit_code = 0 => ret = "record" /\ json_out # "none"
        /\ ret \in {"none", "empty", "error_record"} => exit_code = 1

\* C5 as stated: on the LLM path every failure becomes a message and an empty
\* or error-tagged result; no exception leaves scrape_url_with_openai.
C5_NoUncaughtException ==
    impl = "openai" => raised = "none"

\* C6 as stated: a run that ends with the missing-key error has made no
\* network call: no GET of the target URL and no completion request.
C6_MissingKeyBeforeNetwork ==
    raised = "ValueError" => http_gets = 0 /\ llm_calls = 0

\* C7 as stated: a run issues at most one GET of the target URL and at most
\* one completion request, whatever its options; no failed request is
\* repeated.
C7_AtMostOneGetOneCompletion ==
    /\ http_gets <= 1
    /\ llm_calls <= 1

(***************************************************************************)
(* Lists of values taken from the elements of a page                       *)
(*                                                                         *)
(* A page is the sequence, in document order, of the elements the          *)
(* selectors of a scraper can match; each element has a tag, its raw text  *)
(* and, for an anchor, its href attribute or NoAttr.                       *)
(***************************************************************************)
NoAttr == <<"NoAttr">>

RawTexts == {<<" ">>, <<"x">>, <<" ", "y">>}

HeadingTag(i) == <<"h1", "h2", "h3", "h4", "h5", "h6">>[i]

HeadingTags == {HeadingTag(i) : i \in 1..6}

GenericElems ==
    [tag : HeadingTags \cup {"p"}, text : RawTexts, href : {NoAttr}]
    \cup [tag : {"a"}, text : RawTexts, href : {NoAttr, <<"u">>}]

\* span.inline-block.rounded-md, span.inline-block.rounded-full, any other
\* span, and the p whose string holds the required-skills label
JobElems ==
    [tag : {"span_rounded_md", "span_rounded_full", "span"}, text : RawTexts,
     href : {NoAttr}]
    \cup [tag : {"p_skills_label"}, text : {<<"x">>}, href : {NoAttr}]

SeqsUpTo(S, n) == UNION {[1..k -> S] : k \in 0..n}

\* [f(e) for e in s]
Map(s, f(_)) == [i \in 1..Len(s) |-> f(s[i])]

\* soup.find_all(tag)
FindAll(elems, tag) == SelectSeq(elems, LAMBDA e : e.tag = tag)

\* the "if x.text.strip()" filter of the list comprehensions
KeepAnyText(t) == TRUE
KeepText(t) == Strip(t) # <<>>

\* [e.text.strip() for e in found if e.text.strip()]
StrippedTexts(found) ==
    Map(SelectSeq(found, LAMBDA e : KeepText(e.text)), LAMBDA e : Strip(e.text))

\* the h{i} loop of scrape_generic_site, levels i..6
RECURSIVE HeadingsFrom(_, _)
HeadingsFrom(elems, i) ==
    IF i > 6 THEN <<>>
    ELSE Map(FindAll(elems, HeadingTag(i)),
             LAMBDA e : [level |-> i, text |-> Strip(e.text)])
         \o HeadingsFrom(elems, i + 1)

\* "if 'href' in link.attrs"
LinkAlwaysKept(e) == TRUE
LinkHasHref(e) == e.href # NoAttr

\* the links loop of scrape_generic_site
SelectorLinks(elems) ==
    Map(SelectSeq(FindAll(elems, "a"), LinkHasHref),
        LAMBDA e : [text |-> Strip(e.text), href |-> e.href])

\* skills_section.find_next_siblings('span'): the spans after the first label
IsSpan(e) == e.tag \in {"span_rounded_md", "span_rounded_full", "span"}

NextSiblingSpans(elems) ==
    LET labels == {i \in 1..Len(elems) : elems[i].tag = "p_skills_label"}
    IN  IF labels = {} THEN <<>>
        ELSE LET first == CHOOSE i \in labels : \A j \in labels : i <= j
             IN  SelectSeq(SubSeq(elems, first + 1, Len(elems)), IsSpan)

\* crawler.extract with a schema field {"extract": "text", "multiple": True}:
\* the trimmed text of every match, in document order; the library drops
\* empty values or keeps them
ExtractMultiple(elems, tag, drops_empty) ==
    LET found == FindAll(elems, tag)
    IN  Map(SelectSeq(found, LAMBDA e : ~drops_empty \/ Strip(e.text) # <<>>),
            LAMBDA e : Strip(e.text))

\* crawler.extract with the schema field "links" (extract text and href): one
\* raw record per anchor, a key being left out when its value is missing
RawLink(e, drops_empty) ==
    LET hasText == ~drops_empty \/ Strip(e.text) # <<>>
        hasHref == e.href # NoAttr
    IN  [k \in (IF hasText THEN {"text"} ELSE {}) \cup
               (IF hasHref THEN {"href"} ELSE {})
            |-> IF k = "text" THEN Strip(e.text) ELSE e.href]

\* '"text" in link and "href" in link'
RawLinkComplete(r) == "text" \in DOMAIN r /\ "href" \in DOMAIN r

\* the links loop of scrape_generic_with_crawl4ai
Crawl4aiLinks(raw) ==
    Map(SelectSeq(raw, RawLinkComplete),
        LAMBDA r : [text |-> r["text"], href |-> r["href"]])

InitFields ==
    /\ impl \in {"selector", "crawl4ai"}
    /\ page \in
         [url : {"other"}, elems : SeqsUpTo(GenericElems, MaxElems),
          lib_drops_empty : IF impl = "crawl4ai" THEN BOOLEAN ELSE {FALSE}]
         \cup
         (IF impl = "selector"
          THEN [url : {"sokudan"}, elems : SeqsUpTo(JobElems, MaxSpans),
                lib_drops_empty : {FALSE}]
          ELSE {})
    /\ pc = "extract"
    /\ result = <<>>
    /\ CliIdle

\* scrape_sokudan_job, the job_type / required_skills / features part
scrape_sokudan_job_lists ==
    /\ impl = "selector"
    /\ page.url = "sokudan"
    /\ pc = "extract"
    /\ result' =
         [job_type |-> StrippedTexts(FindAll(page.elems, "span_rounded_md")),
          required_skills |-> StrippedTexts(NextSiblingSpans(page.elems)),
          features |-> StrippedTexts(FindAll(page.elems, "span_rounded_full"))]
    /\ pc' = "done"
    /\ UNCHANGED <<impl, page, cliVars>>

\* scrape_generic_site after the fetch
scrape_generic_site ==
    /\ impl = "selector"
    /\ page.url = "other"
    /\ pc = "extract"
    /\ result' =
         [headings |-> HeadingsFrom(page.elems, 1),
          paragraphs |-> StrippedTexts(FindAll(page.elems, "p")),
          links |-> SelectorLinks(page.elems)]
    /\ pc' = "done"
    /\ UNCHANGED <<impl, page, cliVars>>

\* scrape_generic_with_crawl4ai after crawler.extract
scrape_generic_with_crawl4ai ==
    /\ impl = "crawl4ai"
    /\ page.url = "other"
    /\ pc = "extract"
    /\ LET d == page.lib_drops_empty
           h(i) == Map(ExtractMultiple(page.elems, HeadingTag(i), d),
                       LAMBDA t : [level |-> i, text |-> t])
       IN  result' =
             [headings |-> h(1) \o h(2) \o h(3),
              paragraphs |-> ExtractMultiple(page.elems, "p", d),
              links |-> Crawl4aiLinks(
                           Map(FindAll(page.elems, "a"),
                               LAMBDA e : RawLink(e, d)))]
    /\ pc' = "done"
    /\ UNCHANGED <<impl, page, cliVars>>

NextFields ==
    \/ scrape_sokudan_job_lists
    \/ scrape_generic_site
    \/ scrape_generic_with_crawl4ai

SpecFields == InitFields /\ [][NextFields]_vars

(***************************************************************************)
(* Claims about the lists of a result                                      *)
(***************************************************************************)
Blank(t) == \A k \in 1..Len(t) : t[k] \in Whitespace

NoOuterWhitespace(v) ==
    v # <<>> => v[1] \notin Whitespace /\ v[Len(v)] \notin Whitespace

\* v is raw without its leading and trailing whitespace
IsTrimOf(raw, v) ==
    /\ NoOuterWhitespace(v)
    /\ \E a \in 0..Len(raw) :
          /\ a + Len(v) <= Len(raw)
          /\ v = SubSeq(raw, a + 1, a + Len(v))
          /\ \A k \in 1..a : raw[k] \in Whitespace
          /\ \A k \in (a + Len(v) + 1)..Len(raw) : raw[k] \in Whitespace

ElemIdx(tags) == {i \in 1..Len(page.elems) : page.elems[i].tag \in tags}

HeadingIdx == ElemIdx(HeadingTags)

LevelOf(i) == CHOOSE l \in 1..6 : HeadingTag(l) = page.elems[i].tag

\* heading j comes before heading i: lower level first, then document order
HeadingBefore(j, i) ==
    \/ LevelOf(j) < LevelOf(i)
    \/ LevelOf(j) = LevelOf(i) /\ j < i

Rank(S, i) == Cardinality({j \in S : j <= i})

\* C8 as stated: in both generic scrapers the headings sequence holds every
\* h1..h6 heading of the page as {level, text}, by ascending level, and in
\* document order among headings of one level.
C8_HeadingsOfAllLevels ==
    pc = "done" /\ page.url = "other" =>
        /\ Len(result.headings) = Cardinality(HeadingIdx)
        /\ \A i \in HeadingIdx :
              LET h == result.headings[
                          1 + Cardinality({j \in HeadingIdx : HeadingBefore(j, i)})]
              IN  /\ h.level = LevelOf(i)
                  /\ IsTrimOf(page.elems[i].text, h.text)

\* the anchors whose text and href are both present: an element always has a
\* text in the selector scraper, a raw crawl4ai record has the key or not
AnchorHasBoth(i) ==
    /\ page.elems[i].href # NoAttr
    /\ \/ impl = "selector"
       \/ ~page.lib_drops_empty
       \/ ~Blank(page.elems[i].text)

KeptAnchors == {i \in ElemIdx({"a"}) : AnchorHasBoth(i)}

\* C9: the links sequence holds one entry, with both keys, for each anchor
\* that has both its text and its href, in document order, and none for an
\* anchor that lacks either.
C9_LinksNeedTextAndHref ==
    pc = "done" /\ page.url = "other" =>
        /\ Len(result.links) = Cardinality(KeptAnchors)
        /\ \A i \in KeptAnchors :
              LET l == result.links[Rank(KeptAnchors, i)]
              IN  /\ DOMAIN l = {"text", "href"}
                  /\ l.href = page.elems[i].href
                  /\ IsTrimOf(page.elems[i].text, l.text)

\* two anchors, one without href, and only the other one emitted
C9_Witness ==
    /\ pc = "done"
    /\ page.url = "other"
    /\ Cardinality(ElemIdx({"a"})) = 2
    /\ \E i \in ElemIdx({"a"}) : page.elems[i].href = NoAttr
    /\ Len(result.links) = 1

\* no value of out is empty or whitespace-only, every value is trimmed, and
\* the values follow the order of their elements, taken from idx, under the
\* order before
OrderedTrimmed(out, idx, before(_, _), mayBeEmpty) ==
    /\ \A k \in 1..Len(out) :
          /\ NoOuterWhitespace(out[k])
          /\ mayBeEmpty \/ out[k] # <<>>
    /\ \E f \in [1..Len(out) -> idx] :
          /\ \A k \in 1..Len(out) : IsTrimOf(page.elems[f[k]].text, out[k])
          /\ \A k1, k2 \in 1..Len(out) : k1 < k2 => before(f[k1], f[k2])

DocumentOrder(j, i) == j < i

\* the spans after the first required-skills label
SkillIdx ==
    {i \in ElemIdx({"span_rounded_md", "span_rounded_full", "span"}) :
        \E j \in ElemIdx({"p_skills_label"}) : j < i}

HeadingTexts == [k \in 1..Len(result.headings) |-> result.headings[k].text]

JobListsOrderedTrimmed ==
    /\ OrderedTrimmed(result.job_type, ElemIdx({"span_rounded_md"}),
                      DocumentOrder, FALSE)
    /\ OrderedTrimmed(result.required_skills, SkillIdx, DocumentOrder, FALSE)
    /\ OrderedTrimmed(result.features, ElemIdx({"span_rounded_full"}),
                      DocumentOrder, FALSE)

max_tokens == 16000

RunKinds == {"tag", "script", "main", "text"}

RunLengths == {1, 8000, 16000}

HtmlDocs ==
    UNION {[1..k -> [kind : RunKinds, n : RunLengths]] : k \in 1..MaxRuns}

\* len(html_content)
RECURSIVE LenRuns(_)
LenRuns(rs) == IF rs = <<>> THEN 0 ELSE Head(rs).n + LenRuns(Tail(rs))

\* html_content[:n]
RECURSIVE Take(_, _)
Take(rs, n) ==
    IF rs = <<>> \/ n <= 0 THEN <<>>
    ELSE IF Head(rs).n <= n
         THEN <<Head(rs)>> \o Take(Tail(rs), n - Head(rs).n)
         ELSE <<[kind |-> Head(rs).kind, n |-> n]>>

\* html_content[:max_tokens] if len(html_content) > max_tokens else html_content
Truncate(rs) == IF LenRuns(rs) > max_tokens THEN Take(rs, max_tokens) ELSE rs

\* get_text(separator='\n'): the strings joined by line breaks
RECURSIVE JoinLines(_)
JoinLines(rs) ==
    IF Len(rs) <= 1 THEN rs
    ELSE <<Head(rs), [kind |-> "nl", n |-> 1]>> \o JoinLines(Tail(rs))

\* extract_main_content: drop the non-content elements, then the text of the
\* main container when there is one, else the text of the whole document
extract_main_content(doc) ==
    LET mainText == SelectSeq(doc, LAMBDA r : r.kind = "main")
        allText == SelectSeq(doc, LAMBDA r : r.kind \in {"main", "text"})
    IN  IF mainText # <<>> THEN JoinLines(mainText) ELSE JoinLines(allText)

\* fetch_html gave a non-empty document and the API key is set
InitLlm ==
    /\ impl = "openai"
    /\ page \in [html : HtmlDocs]
    /\ pc = "parse"
    /\ result = <<>>
    /\ CliIdle

\* scrape_url_with_openai handing the fetched html to parse_with_openai, and
\* parse_with_openai building the user message of the request
parse_with_openai_messages ==
    /\ impl = "openai"
    /\ pc = "parse"
    /\ result' = [html_content_short |-> Truncate(page.html)]
    /\ pc' = "done"
    /\ UNCHANGED <<impl, page, cliVars>>

NextLlm == parse_with_openai_messages

SpecLlm == InitLlm /\ [][NextLlm]_vars

\* C11 as stated: the page content of the request is the cleaned plain text
\* of the page (non-content elements and markup stripped, main container
\* preferred), cut to its first max_tokens characters when longer and
\* unchanged otherwise; it never exceeds max_tokens characters and is never
\* the raw HTML.
C11_RequestCarriesCleanedText ==
    pc = "done" =>
        /\ result.html_content_short = Truncate(extract_main_content(page.html))
        /\ LenRuns(result.html_content_short) <= max_tokens
        /\ \A k \in 1..Len(result.html_content_short) :
              result.html_content_short[k].kind \notin {"tag", "script"}

====
